---------------------------- MODULE Spec2Model ----------------------------
(***************************************************************************)
(* Model of the concurrent renderers of the ray tracer.                    *)
(*                                                                         *)
(*   "async" : src/src/InOneWeekend/main.cc, one std::async task per       *)
(*             row-block, results appended under a mutex, main waits on a  *)
(*             condition variable and merges.                              *)
(*   "pool"  : src/unnamed/part_000, nThreads-1 worker threads plus the    *)
(*             main thread run ThreadJobLoop over a shared job queue.      *)
(*                                                                         *)
(* Thread 0 is the main thread.  In the pool program threads               *)
(* 1..nThreads-1 are the spawned workers; in the async program thread i+1  *)
(* is the task launched for loop index i.                                  *)
(*                                                                         *)
(* The pixel loop of a job touches only the job's own vectors, so it is    *)
(* one step.  The random sampler is abstracted to one draw per job: every  *)
(* pixel of a job gets the shade drawn for that job, and two jobs may draw *)
(* different shades.                                                       *)
(*                                                                         *)
(* The path integrator color() is modelled on its own (SpecColor): one     *)
(* primary ray, each invocation hitting or missing and scattering or not.  *)
(***************************************************************************)
EXTENDS Integers, Sequences, FiniteSets, TLC

\* ------------------------------------------------------------------ bounds
MaxNy == 3
MaxNx == 2
MaxRowsPerJob == 2
MaxThreads == 2

\* Shades a job's sampler may produce (0 is the memset value of the buffer).
Shades == {1, 2}

Programs == {"async", "pool"}

Max2(a, b) == IF a >= b THEN a ELSE b

\* Thread identifiers: main, and as many others as either program can start.
Tids == 0..Max2(MaxThreads - 1, MaxNy)

NoThread == -1

VARIABLES
    prog,         \* which of the two programs runs
    nx, ny,       \* image width and height
    nRowsPerJob,  \* rows per job
    nThreads,     \* std::thread::hardware_concurrency()
    pc,           \* position of each thread
    i,            \* main's loop counter (job creation, thread spawning)
    job,          \* the BlockJob local to each thread
    jobQueue,     \* std::queue<BlockJob> (pool)
    m_futures,    \* std::vector<std::future<void>> (async): launch policy of each
    imageBlocks,  \* std::vector<BlockJob>: the finished jobs
    mutex,        \* the thread holding std::mutex, or NoThread
    image,        \* vec3* image, by pixel index
    writeCount,   \* number of writes the merge made to each pixel index
    oobWrites,    \* indices the merge wrote outside the buffer
    mergeIdx,     \* number of blocks the merge loop has gone through
    deqCount,     \* per job index: times it was taken from the queue
    compCount,    \* per job index: times its pixel loop ran
    woken,        \* a notify_one has woken main from its wait
    wPc,          \* main's position in the output stage that follows the merge
    fileState,    \* the std::ofstream: "closed", "open", "failed", "saved"
    fileOut,      \* the lines written to the file
    exitCode,     \* the value main returned (-1 while it has not returned)
    cPc,          \* color(): "idle", "call" (an invocation is entered), "done"
    cDepth,       \* color(): the depth argument of the innermost invocation
    cCalls,       \* color(): invocations entered for the primary ray
    cAllHit,      \* color(): every invocation so far hit scene geometry
    cThroughput,  \* color(): product of the attenuations of the pending frames
    cResult       \* color(): the value returned by the depth-0 invocation

vars == <<prog, nx, ny, nRowsPerJob, nThreads, pc, i, job, jobQueue, m_futures,
          imageBlocks, mutex, image, writeCount, oobWrites, mergeIdx,
          deqCount, compCount, woken, wPc, fileState, fileOut, exitCode,
          cPc, cDepth, cCalls, cAllHit, cThroughput, cResult>>

wvars == <<wPc, fileState, fileOut, exitCode>>

cvars == <<cPc, cDepth, cCalls, cAllHit, cThroughput, cResult>>

rvars == <<prog, nx, ny, nRowsPerJob, nThreads, pc, i, job, jobQueue,
           m_futures, imageBlocks, mutex, image, writeCount, oobWrites,
           mergeIdx, deqCount, compCount, woken, wPc, fileState, fileOut,
           exitCode>>

params == <<prog, nx, ny, nRowsPerJob, nThreads>>

\* --------------------------------------------------------- job partitioning
nJobs == ny \div nRowsPerJob

\* part_000 line 192, main.cc line 125, for a worker count T
leftOverOf(T) == ny % T

leftOver == leftOverOf(nThreads)

pixelCount == nx * ny

\* A default-constructed BlockJob (colSize and spp are not read before set).
EmptyJob == [rowStart |-> 0, rowEnd |-> 0, colSize |-> 0,
             indices |-> <<>>, colors |-> <<>>]

BlockJobLastExtended(n, T) ==
    [rowStart |-> n * nRowsPerJob,
     rowEnd   |-> IF n = nJobs - 1
                  THEN n * nRowsPerJob + nRowsPerJob + leftOverOf(T)
                  ELSE n * nRowsPerJob + nRowsPerJob,
     colSize  |-> nx,
     indices  |-> <<>>,
     colors   |-> <<>>]

\* The job of loop index n when the platform reports T workers.
BlockJobOf(n, T) ==
    [rowStart |-> n * nRowsPerJob,
     rowEnd   |-> IF n = T - 1
                  THEN n * nRowsPerJob + nRowsPerJob + leftOverOf(T)
                  ELSE n * nRowsPerJob + nRowsPerJob,
     colSize  |-> nx,
     indices  |-> <<>>,
     colors   |-> <<>>]

\* The job of loop index n.
MakeJob(n) == BlockJobOf(n, nThreads)

\* Loop index of a job, from its first row.
JobId(j) == j.rowStart \div nRowsPerJob

\* ------------------------------------------------------------- pixel loop
RowIndicesByColumn(j, colSize) == [c \in 1..colSize |-> (c - 1) * colSize + j]

\* The indices the inner loop records for row j: j * colSize + i, i ascending.
RowIndices(j, colSize) == [c \in 1..colSize |-> j * colSize + (c - 1)]

RECURSIVE PixelLoop(_, _, _)
PixelLoop(j, rowEnd, colSize) ==
    IF j >= rowEnd THEN <<>>
    ELSE RowIndices(j, colSize) \o PixelLoop(j + 1, rowEnd, colSize)

\* The job after its pixel loop, its sampler having drawn `shade`.
Computed(j, shade) ==
    LET idx == PixelLoop(j.rowStart, j.rowEnd, j.colSize)
    IN  [j EXCEPT !.indices = idx,
                  !.colors  = [k \in 1..Len(idx) |-> shade]]

JobValidStrict(j) == j.rowStart + 1 < j.rowEnd

\* the 'quick/dirty' validity test of ThreadJobLoop
JobValid(j) == j.rowStart < j.rowEnd

\* ------------------------------------------------------------------- Init
\* The renderer before main's first loop, for the given choice of program,
\* image size, block size and worker count.
RenderInit(P, W, H, R, T) ==
    /\ prog \in P
    /\ nx \in W
    /\ ny \in H
    /\ nRowsPerJob \in R
    /\ nThreads \in T
    /\ pc = [t \in Tids |-> IF t = 0 THEN "create" ELSE "idle"]
    /\ i = 0
    /\ job = [t \in Tids |-> EmptyJob]
    /\ jobQueue = <<>>
    /\ m_futures = <<>>
    /\ imageBlocks = <<>>
    /\ mutex = NoThread
    /\ image = [p \in 0..(nx * ny - 1) |-> 0]
    /\ writeCount = [p \in 0..(nx * ny - 1) |-> 0]
    /\ oobWrites = {}
    /\ mergeIdx = 0
    /\ deqCount = [n \in 0..(MaxNy - 1) |-> 0]
    /\ compCount = [n \in 0..(MaxNy - 1) |-> 0]
    /\ woken = FALSE
    /\ wPc = "open"
    /\ fileState = "closed"
    /\ fileOut = <<>>
    /\ exitCode = -1

\* No primary ray is being traced.
ColorIdle ==
    /\ cPc = "idle"
    /\ cDepth = 0
    /\ cCalls = 0
    /\ cAllHit = TRUE
    /\ cThroughput = 1
    /\ cResult = 0

\* Either program, for every image size, block size and worker count of at
\* least 1 within the bounds.
Init ==
    /\ RenderInit(Programs, 1..MaxNx, 1..MaxNy, 1..MaxRowsPerJob, 1..MaxThreads)
    /\ ColorIdle

\* The same at the largest width only: the width takes no part in the
\* scheduling.
InitWidest ==
    /\ RenderInit(Programs, {MaxNx}, 1..MaxNy, 1..MaxRowsPerJob, 1..MaxThreads)
    /\ ColorIdle

\* ------------------------------------------------------------------ mutex
LockIgnoresOwner == TRUE

\* std::mutex::lock returns only when no thread holds the mutex.
MutexFree == mutex = NoThread

HeldOn(t) == mutex

\* lock_guard / unique_lock destructor of thread t (and the unlock inside
\* cv.wait): the mutex is free again.
Released(t) == IF mutex = t THEN NoThread ELSE mutex

\* lock_guard / unique_lock constructor of thread t, entering section `to`.
Lock(t, from, to) ==
    /\ pc[t] = from
    /\ MutexFree
    /\ mutex' = t
    /\ pc' = [pc EXCEPT ![t] = to]

\* ------------------------------------------------------ condition variable
NotifyLost(p) == p

\* cv.notify_one(): the waiter, if main is blocked in wait, becomes runnable
\* and has to take the mutex again.
NotifyOne(p) == IF p[0] = "blocked" THEN [p EXCEPT ![0] = "waitLock"] ELSE p

\* ------------------------------------------------------------- pool: main
\* part_000 lines 200-213: one iteration of the loop filling the job queue
PoolPushJob ==
    /\ prog = "pool"
    /\ pc[0] = "create"
    /\ i < nJobs
    /\ jobQueue' = Append(jobQueue, MakeJob(i))
    /\ i' = i + 1
    /\ UNCHANGED <<cvars, woken, wvars>>
    /\ UNCHANGED <<params, pc, job, m_futures, imageBlocks, mutex, image,
                   writeCount, oobWrites, mergeIdx, deqCount, compCount>>

PoolPushDone ==
    /\ prog = "pool"
    /\ pc[0] = "create"
    /\ i >= nJobs
    /\ pc' = [pc EXCEPT ![0] = "spawn"]
    /\ i' = 0
    /\ UNCHANGED <<cvars, woken, wvars>>
    /\ UNCHANGED <<params, job, jobQueue, m_futures, imageBlocks, mutex, image,
                   writeCount, oobWrites, mergeIdx, deqCount, compCount>>

\* part_000 lines 216-222: one iteration of the loop starting the workers
PoolSpawn ==
    /\ prog = "pool"
    /\ pc[0] = "spawn"
    /\ i < nThreads - 1
    /\ pc' = [pc EXCEPT ![i + 1] = "loop"]
    /\ i' = i + 1
    /\ UNCHANGED <<cvars, woken, wvars>>
    /\ UNCHANGED <<params, job, jobQueue, m_futures, imageBlocks, mutex, image,
                   writeCount, oobWrites, mergeIdx, deqCount, compCount>>

\* part_000 line 225: main enters ThreadJobLoop itself
PoolSpawnDone ==
    /\ prog = "pool"
    /\ pc[0] = "spawn"
    /\ i >= nThreads - 1
    /\ pc' = [pc EXCEPT ![0] = "loop"]
    /\ UNCHANGED <<cvars, woken, wvars>>
    /\ UNCHANGED <<params, i, job, jobQueue, m_futures, imageBlocks, mutex,
                   image, writeCount, oobWrites, mergeIdx, deqCount, compCount>>

\* ------------------------------------------------- pool: ThreadJobLoop(t)
FrontKept(q) == q

\* jobQ.pop()
PopFront(q) == Tail(q)

\* part_000 line 144
LoopLock(t) ==
    /\ prog = "pool"
    /\ Lock(t, "loop", "inPop")
    /\ UNCHANGED <<cvars, woken, wvars>>
    /\ UNCHANGED <<params, i, job, jobQueue, m_futures, imageBlocks, image,
                   writeCount, oobWrites, mergeIdx, deqCount, compCount>>

\* part_000 lines 145-159: take the front job if there is one, release the
\* mutex, and decide by the validity test whether to compute or to leave.
LoopPop(t) ==
    /\ prog = "pool"
    /\ pc[t] = "inPop"
    /\ LET got == IF jobQueue # <<>> THEN Head(jobQueue) ELSE EmptyJob
       IN  /\ jobQueue' = IF jobQueue # <<>> THEN PopFront(jobQueue) ELSE jobQueue
           /\ deqCount' = IF jobQueue # <<>>
                          THEN [deqCount EXCEPT ![JobId(got)] = @ + 1]
                          ELSE deqCount
           /\ job' = [job EXCEPT ![t] = got]
           /\ pc' = [pc EXCEPT ![t] = IF JobValid(got) THEN "compute" ELSE "notify"]
    /\ mutex' = Released(t)
    /\ UNCHANGED <<cvars, woken, wvars>>
    /\ UNCHANGED <<params, i, m_futures, imageBlocks, image, writeCount,
                   oobWrites, mergeIdx, compCount>>

\* part_000 lines 107-123: the pixel loop of CalculateColor
PoolCompute(t) ==
    /\ prog = "pool"
    /\ pc[t] = "compute"
    /\ \E shade \in Shades : job' = [job EXCEPT ![t] = Computed(job[t], shade)]
    /\ compCount' = [compCount EXCEPT ![JobId(job[t])] = @ + 1]
    /\ pc' = [pc EXCEPT ![t] = "append"]
    /\ UNCHANGED <<cvars, woken, wvars>>
    /\ UNCHANGED <<params, i, jobQueue, m_futures, imageBlocks, mutex, image,
                   writeCount, oobWrites, mergeIdx, deqCount>>

\* part_000 line 126, main.cc line 167
AppendLock(t) ==
    /\ Lock(t, "append", "inAppend")
    /\ UNCHANGED <<cvars, woken, wvars>>
    /\ UNCHANGED <<params, i, job, jobQueue, m_futures, imageBlocks, image,
                   writeCount, oobWrites, mergeIdx, deqCount, compCount>>

\* part_000 lines 127-128: push_back, release; back to the top of the loop
\* with a fresh BlockJob
PoolAppend(t) ==
    /\ prog = "pool"
    /\ pc[t] = "inAppend"
    /\ imageBlocks' = Append(imageBlocks, job[t])
    /\ job' = [job EXCEPT ![t] = EmptyJob]
    /\ mutex' = Released(t)
    /\ pc' = [pc EXCEPT ![t] = "loop"]
    /\ UNCHANGED <<cvars, woken, wvars>>
    /\ UNCHANGED <<params, i, jobQueue, m_futures, image, writeCount,
                   oobWrites, mergeIdx, deqCount, compCount>>

\* part_000 line 164
NotifyLock(t) ==
    /\ prog = "pool"
    /\ Lock(t, "notify", "inNotify")
    /\ UNCHANGED <<cvars, woken, wvars>>
    /\ UNCHANGED <<params, i, job, jobQueue, m_futures, imageBlocks, image,
                   writeCount, oobWrites, mergeIdx, deqCount, compCount>>

\* part_000 lines 165-167: notify_one, release, return from ThreadJobLoop;
\* main goes on to its wait (line 230)
LoopExit(t) ==
    /\ prog = "pool"
    /\ pc[t] = "inNotify"
    /\ pc' = [NotifyOne(pc) EXCEPT ![t] = IF t = 0 THEN "waitLock" ELSE "done"]
    /\ woken' = (woken \/ NotifyOne(pc)[0] # pc[0])
    /\ mutex' = Released(t)
    /\ UNCHANGED <<cvars, wvars>>
    /\ UNCHANGED <<params, i, job, jobQueue, m_futures, imageBlocks, image,
                   writeCount, oobWrites, mergeIdx, deqCount, compCount>>

\* ------------------------------------------------------------ async: main
\* main.cc lines 134-171: std::async creates the task of loop index i.  With
\* launch::async | launch::deferred the implementation chooses the policy:
\* an async task starts on a thread of its own, a deferred one runs only in
\* a get() or wait() on its future.
AsyncLaunch ==
    /\ prog = "async"
    /\ pc[0] = "create"
    /\ i < nJobs
    /\ \E launched \in {"start", "deferred"} :
           pc' = [pc EXCEPT ![0] = "push", ![i + 1] = launched]
    /\ UNCHANGED <<cvars, woken, wvars>>
    /\ UNCHANGED <<params, i, job, jobQueue, m_futures, imageBlocks, mutex,
                   image, writeCount, oobWrites, mergeIdx, deqCount, compCount>>

\* main.cc line 174
AsyncPushLock ==
    /\ prog = "async"
    /\ Lock(0, "push", "inPush")
    /\ UNCHANGED <<cvars, woken, wvars>>
    /\ UNCHANGED <<params, i, job, jobQueue, m_futures, imageBlocks, image,
                   writeCount, oobWrites, mergeIdx, deqCount, compCount>>

\* main.cc lines 175-177: m_futures.push_back, release, next iteration
AsyncPush ==
    /\ prog = "async"
    /\ pc[0] = "inPush"
    /\ m_futures' = Append(m_futures,
                           IF pc[i + 1] = "deferred" THEN "deferred" ELSE "async")
    /\ mutex' = Released(0)
    /\ i' = i + 1
    /\ pc' = [pc EXCEPT ![0] = "create"]
    /\ UNCHANGED <<cvars, woken, wvars>>
    /\ UNCHANGED <<params, job, jobQueue, imageBlocks, image, writeCount,
                   oobWrites, mergeIdx, deqCount, compCount>>

\* main.cc line 132: the launch loop ends; main goes on to its wait (line 182)
AsyncLaunchDone ==
    /\ prog = "async"
    /\ pc[0] = "create"
    /\ i >= nJobs
    /\ pc' = [pc EXCEPT ![0] = "waitLock"]
    /\ UNCHANGED <<cvars, woken, wvars>>
    /\ UNCHANGED <<params, i, job, jobQueue, m_futures, imageBlocks, mutex,
                   image, writeCount, oobWrites, mergeIdx, deqCount, compCount>>

\* ------------------------------------------------------------ async: task
\* main.cc lines 138-164: the task of loop index t-1 builds its job and runs
\* the pixel loop
AsyncCompute(t) ==
    /\ prog = "async"
    /\ pc[t] = "start"
    /\ \E shade \in Shades :
           job' = [job EXCEPT ![t] = Computed(MakeJob(t - 1), shade)]
    /\ compCount' = [compCount EXCEPT ![t - 1] = @ + 1]
    /\ pc' = [pc EXCEPT ![t] = "append"]
    /\ UNCHANGED <<cvars, woken, wvars>>
    /\ UNCHANGED <<params, i, jobQueue, m_futures, imageBlocks, mutex, image,
                   writeCount, oobWrites, mergeIdx, deqCount>>

\* main.cc lines 168-171: push_back, notify_one, release; the task ends
AsyncAppend(t) ==
    /\ prog = "async"
    /\ pc[t] = "inAppend"
    /\ imageBlocks' = Append(imageBlocks, job[t])
    /\ job' = [job EXCEPT ![t] = EmptyJob]
    /\ mutex' = Released(t)
    /\ pc' = [NotifyOne(pc) EXCEPT ![t] = "done"]
    /\ woken' = (woken \/ NotifyOne(pc)[0] # pc[0])
    /\ UNCHANGED <<cvars, wvars>>
    /\ UNCHANGED <<params, i, jobQueue, m_futures, image, writeCount,
                   oobWrites, mergeIdx, deqCount, compCount>>

\* ------------------------------------------------------ completion barrier
NoBarrier == TRUE

\* the predicate of cvResults.wait: part_000 line 232, main.cc line 184
WaitPredicate ==
    IF prog = "pool" THEN Len(imageBlocks) = nJobs
    ELSE Len(m_futures) = Len(imageBlocks)

\* part_000 line 230, main.cc line 182; also the re-lock after a wake-up
WaitLock ==
    /\ Lock(0, "waitLock", "inWait")
    /\ UNCHANGED <<cvars, woken, wvars>>
    /\ UNCHANGED <<params, i, job, jobQueue, m_futures, imageBlocks, image,
                   writeCount, oobWrites, mergeIdx, deqCount, compCount>>

\* wait(lock, pred): with the mutex held, return if the predicate holds,
\* else release the mutex and block, atomically
WaitCheck ==
    /\ pc[0] = "inWait"
    /\ mutex' = Released(0)
    /\ pc' = [pc EXCEPT ![0] = IF WaitPredicate
                               THEN (IF prog = "pool" THEN "join" ELSE "merge")
                               ELSE "blocked"]
    /\ i' = 0
    /\ UNCHANGED <<cvars, woken, wvars>>
    /\ UNCHANGED <<params, job, jobQueue, m_futures, imageBlocks, image,
                   writeCount, oobWrites, mergeIdx, deqCount, compCount>>

\* a condition variable may wake its waiter without a notify
SpuriousWake ==
    /\ pc[0] = "blocked"
    /\ pc' = [pc EXCEPT ![0] = "waitLock"]
    /\ UNCHANGED <<cvars, woken, wvars>>
    /\ UNCHANGED <<params, i, job, jobQueue, m_futures, imageBlocks, mutex,
                   image, writeCount, oobWrites, mergeIdx, deqCount, compCount>>

\* part_000 lines 236-239: t.join() returns once that worker has ended
Join ==
    /\ prog = "pool"
    /\ pc[0] = "join"
    /\ i < nThreads - 1
    /\ pc[i + 1] = "done"
    /\ i' = i + 1
    /\ UNCHANGED <<cvars, woken, wvars>>
    /\ UNCHANGED <<params, pc, job, jobQueue, m_futures, imageBlocks, mutex,
                   image, writeCount, oobWrites, mergeIdx, deqCount, compCount>>

JoinDone ==
    /\ prog = "pool"
    /\ pc[0] = "join"
    /\ i >= nThreads - 1
    /\ pc' = [pc EXCEPT ![0] = "merge"]
    /\ UNCHANGED <<cvars, woken, wvars>>
    /\ UNCHANGED <<params, i, job, jobQueue, m_futures, imageBlocks, mutex,
                   image, writeCount, oobWrites, mergeIdx, deqCount, compCount>>

\* ------------------------------------------------------------------ merge
\* part_000 lines 245-250, main.cc lines 192-197: from the k-th color on,
\* image[job.indices[k]] = job.colors[k].  st is the buffer, the write
\* counts and the indices written outside the buffer.
RECURSIVE WriteBlock(_, _, _)
WriteBlock(st, j, k) ==
    IF k > Len(j.colors) THEN st
    ELSE LET colIndex == j.indices[k]
         IN  IF colIndex \in DOMAIN st.image
             THEN WriteBlock([st EXCEPT !.image[colIndex] = j.colors[k],
                                        !.count[colIndex] = @ + 1], j, k + 1)
             ELSE WriteBlock([st EXCEPT !.oob = @ \cup {colIndex}], j, k + 1)

\* part_000 lines 241-251, main.cc lines 188-198: one iteration of the merge
\* loop over imageBlocks
MergeBlock ==
    /\ pc[0] = "merge"
    /\ mergeIdx < Len(imageBlocks)
    /\ LET st == WriteBlock([image |-> image, count |-> writeCount,
                             oob |-> oobWrites], imageBlocks[mergeIdx + 1], 1)
       IN  /\ image' = st.image
           /\ writeCount' = st.count
           /\ oobWrites' = st.oob
    /\ mergeIdx' = mergeIdx + 1
    /\ UNCHANGED <<cvars, woken, wvars>>
    /\ UNCHANGED <<params, pc, i, job, jobQueue, m_futures, imageBlocks, mutex,
                   deqCount, compCount>>

\* the merge loop ends: the buffer goes to the file writer
MergeDone ==
    /\ pc[0] = "merge"
    /\ mergeIdx >= Len(imageBlocks)
    /\ pc' = [pc EXCEPT ![0] = "handoff"]
    /\ UNCHANGED <<cvars, woken, wvars>>
    /\ UNCHANGED <<params, i, job, jobQueue, m_futures, imageBlocks, mutex,
                   image, writeCount, oobWrites, mergeIdx, deqCount, compCount>>

\* ----------------------------------------------------------- file output
\* The three components e[0], e[1], e[2] of the vec3 a shade stands for, in
\* thousandths; 0 is the zeroed buffer entry.
Vec3(s) ==
    IF s = 0 THEN <<0, 0, 0>>
    ELSE IF s = 1 THEN <<250, 500, 1000>>
    ELSE <<1000, 640, 90>>

\* v.e[c]
E(v, c) == v[c + 1]

\* static_cast<int>(255.99f * x), x in thousandths
Quantize(x) == (25599 * x) \div 100000

\* conversion of `return false` to main's int
BoolToInt(b) == IF b THEN 1 ELSE 0

\* `return 0`
SuccessCode == 0

PixelLineInOrder(v) == <<Quantize(E(v, 0)), Quantize(E(v, 1)), Quantize(E(v, 2))>>

\* part_000 lines 278-281: one pixel line, e[2] then e[1] then e[0]
PixelLine(v) == <<Quantize(E(v, 2)), Quantize(E(v, 1)), Quantize(E(v, 0))>>

\* part_000 lines 272-282: the lines the pixel loop writes from index k on
RECURSIVE PixelLines(_)
PixelLines(k) ==
    IF k < nx * ny THEN <<PixelLine(Vec3(image[k]))>> \o PixelLines(k + 1)
    ELSE <<>>

\* part_000 lines 263-264: fileHandler.open succeeds or fails
OpenFile ==
    /\ pc[0] = "handoff"
    /\ wPc = "open"
    /\ \E ok \in BOOLEAN :
           /\ fileState' = IF ok THEN "open" ELSE "failed"
           /\ wPc' = "opened"
    /\ UNCHANGED <<fileOut, exitCode>>
    /\ UNCHANGED <<cvars, woken>>
    /\ UNCHANGED <<params, pc, i, job, jobQueue, m_futures, imageBlocks, mutex,
                   image, writeCount, oobWrites, mergeIdx, deqCount, compCount>>

\* part_000 lines 265-268: the file is not open: return false
OpenFailed ==
    /\ pc[0] = "handoff"
    /\ wPc = "opened"
    /\ fileState # "open"
    /\ exitCode' = BoolToInt(FALSE)
    /\ wPc' = "exited"
    /\ UNCHANGED <<fileState, fileOut>>
    /\ UNCHANGED <<cvars, woken>>
    /\ UNCHANGED <<params, pc, i, job, jobQueue, m_futures, imageBlocks, mutex,
                   image, writeCount, oobWrites, mergeIdx, deqCount, compCount>>

\* part_000 line 270: the three header lines
WriteHeader ==
    /\ pc[0] = "handoff"
    /\ wPc = "opened"
    /\ fileState = "open"
    /\ fileOut' = fileOut \o <<<<"P3">>, <<nx, ny>>, <<255>>>>
    /\ wPc' = "pixels"
    /\ UNCHANGED <<fileState, exitCode>>
    /\ UNCHANGED <<cvars, woken>>
    /\ UNCHANGED <<params, pc, i, job, jobQueue, m_futures, imageBlocks, mutex,
                   image, writeCount, oobWrites, mergeIdx, deqCount, compCount>>

\* part_000 lines 272-282: the pixel loop
WritePixels ==
    /\ pc[0] = "handoff"
    /\ wPc = "pixels"
    /\ fileOut' = fileOut \o PixelLines(0)
    /\ wPc' = "close"
    /\ UNCHANGED <<fileState, exitCode>>
    /\ UNCHANGED <<cvars, woken>>
    /\ UNCHANGED <<params, pc, i, job, jobQueue, m_futures, imageBlocks, mutex,
                   image, writeCount, oobWrites, mergeIdx, deqCount, compCount>>

\* part_000 lines 284-288: close, free the buffer, return 0
CloseAndReturn ==
    /\ pc[0] = "handoff"
    /\ wPc = "close"
    /\ fileState' = "saved"
    /\ exitCode' = SuccessCode
    /\ wPc' = "exited"
    /\ UNCHANGED fileOut
    /\ UNCHANGED <<cvars, woken>>
    /\ UNCHANGED <<params, pc, i, job, jobQueue, m_futures, imageBlocks, mutex,
                   image, writeCount, oobWrites, mergeIdx, deqCount, compCount>>

\* ------------------------------------------------------ sequential program
\* part_001 lines 107-126: one row of the render loop; every pixel of the row
\* gets the shade its samples average to
SeqRow ==
    /\ prog = "seq"
    /\ pc[0] = "create"
    /\ i < ny
    /\ \E row \in [0..(nx - 1) -> Shades] :
           image' = [p \in DOMAIN image |->
                        IF p \div nx = i THEN row[p % nx] ELSE image[p]]
    /\ writeCount' = [p \in DOMAIN writeCount |->
                         IF p \div nx = i THEN writeCount[p] + 1 ELSE writeCount[p]]
    /\ i' = i + 1
    /\ UNCHANGED <<cvars, woken, wvars>>
    /\ UNCHANGED <<params, pc, job, jobQueue, m_futures, imageBlocks, mutex,
                   oobWrites, mergeIdx, deqCount, compCount>>

\* part_001 lines 107-128: the render loop ends
SeqDone ==
    /\ prog = "seq"
    /\ pc[0] = "create"
    /\ i >= ny
    /\ pc' = [pc EXCEPT ![0] = "handoff"]
    /\ UNCHANGED <<cvars, woken, wvars>>
    /\ UNCHANGED <<params, i, job, jobQueue, m_futures, imageBlocks, mutex,
                   image, writeCount, oobWrites, mergeIdx, deqCount, compCount>>

\* ---------------------------------------------------------- specification
Workers == Tids \ {0}

\* every step but the spurious wake-up
Step ==
    \/ PoolPushJob
    \/ PoolPushDone
    \/ PoolSpawn
    \/ PoolSpawnDone
    \/ \E t \in Tids : LoopLock(t)
    \/ \E t \in Tids : LoopPop(t)
    \/ \E t \in Tids : PoolCompute(t)
    \/ \E t \in Tids : AppendLock(t)
    \/ \E t \in Tids : PoolAppend(t)
    \/ \E t \in Tids : NotifyLock(t)
    \/ \E t \in Tids : LoopExit(t)
    \/ AsyncLaunch
    \/ AsyncPushLock
    \/ AsyncPush
    \/ AsyncLaunchDone
    \/ \E t \in Workers : AsyncCompute(t)
    \/ \E t \in Workers : AsyncAppend(t)
    \/ WaitLock
    \/ WaitCheck
    \/ Join
    \/ JoinDone
    \/ MergeBlock
    \/ MergeDone
    \/ OpenFile
    \/ OpenFailed
    \/ WriteHeader
    \/ WritePixels
    \/ CloseAndReturn

Next == Step \/ SpuriousWake

Spec == Init /\ [][Next]_vars

\* The scheduler runs some thread that can run; a wake-up of the waiter is
\* not relied on unless a notify causes it.
Fairness == WF_vars(Step)

FairSpec == InitWidest /\ [][Step]_vars /\ Fairness

\* ------------------------------------------------------------ a job throws
\* main.cc lines 134-177: an exception leaving the task's lambda (a failed
\* allocation in push_back or in color) is stored in the task's future; the
\* task ends without appending its block, and main never calls get().
AsyncThrow(t) ==
    /\ prog = "async"
    /\ t # 0
    /\ pc[t] = "start"
    /\ pc' = [pc EXCEPT ![t] = "threw"]
    /\ UNCHANGED <<cvars, woken, wvars>>
    /\ UNCHANGED <<params, i, job, jobQueue, m_futures, imageBlocks, mutex,
                   image, writeCount, oobWrites, mergeIdx, deqCount, compCount>>

\* part_000 lines 104-123, 154: an exception leaving CalculateColor leaves
\* ThreadJobLoop, which is the body of a std::thread (line 219) or is called
\* from main (line 225) with no handler: std::terminate ends the process.
PoolThrow(t) ==
    /\ prog = "pool"
    /\ pc[t] = "compute"
    /\ pc' = [x \in Tids |-> "terminated"]
    /\ UNCHANGED <<cvars, woken, wvars>>
    /\ UNCHANGED <<params, i, job, jobQueue, m_futures, imageBlocks, mutex,
                   image, writeCount, oobWrites, mergeIdx, deqCount, compCount>>

StepThrow ==
    \/ Step
    \/ \E t \in Tids : AsyncThrow(t)
    \/ \E t \in Tids : PoolThrow(t)

\* The fair runs of the two parallel programs in which jobs may throw.
SpecThrow == InitWidest /\ [][StepThrow]_vars /\ WF_vars(StepThrow)

\* ------------------------------------------------------- no worker count
\* part_000 line 192, main.cc line 125: the divisor of ny % nThreads is zero
RemainderByZero == nThreads = 0

\* std::thread::hardware_concurrency() may return 0; ny % 0 is undefined.
\* One outcome is the trap taken here (SIGFPE), which ends the process before
\* any job exists; the other is that the remainder yields some value and main
\* goes on (the value is never read, no loop index being nThreads - 1 = -1).
RemainderTrap ==
    /\ RemainderByZero
    /\ pc[0] = "create"
    /\ i = 0
    /\ jobQueue = <<>>
    /\ m_futures = <<>>
    /\ pc' = [x \in Tids |-> "crashed"]
    /\ UNCHANGED <<cvars, woken, wvars>>
    /\ UNCHANGED <<params, i, job, jobQueue, m_futures, imageBlocks, mutex,
                   image, writeCount, oobWrites, mergeIdx, deqCount, compCount>>

InitZero ==
    /\ RenderInit(Programs, 1..MaxNx, 1..MaxNy, 1..MaxRowsPerJob, 0..MaxThreads)
    /\ ColorIdle

NextZero == Next \/ RemainderTrap

\* The parallel programs for every worker count the platform may report.
SpecZero == InitZero /\ [][NextZero]_vars

\* The two parallel programs and the sequential one (part_001), which has
\* neither jobs nor workers.
InitAll ==
    \/ Init
    \/ /\ RenderInit({"seq"}, 1..MaxNx, 1..MaxNy, {1}, {1})
       /\ ColorIdle

NextAll == Next \/ SeqRow \/ SeqDone

SpecAll == InitAll /\ [][NextAll]_vars

\* ======================================================= path integrator
\* color(r, world, depth), main.cc lines 31-48.  The value returned by the
\* depth-0 invocation is the product of the attenuations of the frames on
\* the stack and the value of the innermost invocation; the product of the
\* pending frames is kept in cThroughput.  Values are abstracted to 0 (black)
\* and 1 (not black).
DepthCap == 50

\* attenuation a material's scatter may produce
Attens == {0, 1}

\* the sky gradient (1-t)*white + t*(0.5, 0.7, 1.0): never black
Background == 1

DepthOkInclusive(d) == d <= DepthCap

\* main.cc line 36: the depth test in front of scatter
DepthOk(d) == d < DepthCap

BackgroundOnHit(th) == th * Background

\* main.cc line 40: the invocation returns vec3(0, 0, 0), which the pending
\* frames multiply by their attenuations
Absorbed(th) == th * 0

\* the depth-0 invocation for a primary ray has been entered
InitColor ==
    /\ RenderInit({"pool"}, {1}, {1}, {1}, {1})
    /\ cPc = "call"
    /\ cDepth = 0
    /\ cCalls = 1
    /\ cAllHit = TRUE
    /\ cThroughput = 1
    /\ cResult = 0

\* main.cc lines 33-37: the ray hits, depth < 50, scatter succeeds with some
\* attenuation: color is invoked for the scattered ray with depth + 1
ColorScatter ==
    /\ cPc = "call"
    /\ DepthOk(cDepth)
    /\ \E a \in Attens : cThroughput' = cThroughput * a
    /\ cDepth' = cDepth + 1
    /\ cCalls' = cCalls + 1
    /\ UNCHANGED <<cPc, cAllHit, cResult>>
    /\ UNCHANGED rvars

\* main.cc lines 39-41: the ray hits and depth >= 50 or scatter fails:
\* the invocation returns vec3(0, 0, 0)
ColorAbsorb ==
    /\ cPc = "call"
    /\ cResult' = Absorbed(cThroughput)
    /\ cPc' = "done"
    /\ UNCHANGED <<cDepth, cCalls, cAllHit, cThroughput>>
    /\ UNCHANGED rvars

\* main.cc lines 43-47: the ray misses: the invocation returns the background
ColorMiss ==
    /\ cPc = "call"
    /\ cResult' = cThroughput * Background
    /\ cAllHit' = FALSE
    /\ cPc' = "done"
    /\ UNCHANGED <<cDepth, cCalls, cThroughput>>
    /\ UNCHANGED rvars

NextColor == ColorScatter \/ ColorAbsorb \/ ColorMiss

\* an invocation that was entered runs on
SpecColor == InitColor /\ [][NextColor]_vars /\ WF_vars(NextColor)

\* ================================================================== claims
Range(f) == {f[k] : k \in DOMAIN f}

\* rows of a job's range [rowStart, rowEnd)
Rows(j) == j.rowStart .. (j.rowEnd - 1)

\* number of entries of the result collection that recorded pixel index p
Recorders(p) ==
    Cardinality({k \in 1..Len(imageBlocks) : p \in Range(imageBlocks[k].indices)})

\* number of entries of the result collection that hold the job of index n
Appended(n) ==
    Cardinality({k \in 1..Len(imageBlocks) : JobId(imageBlocks[k]) = n})

\* C1: when the image buffer is handed to the file writer, every pixel index
\* in [0, width*height) has been recorded by exactly one job's result and
\* written into the buffer exactly once, whatever the worker count.  Stated
\* for heights that are a whole number of blocks, as the programs' own are.
C1_EveryPixelOnce ==
    (pc[0] = "handoff" /\ ny % nRowsPerJob = 0) =>
        \A p \in 0..(pixelCount - 1) : Recorders(p) = 1 /\ writeCount[p] = 1

\* the row ranges of the jobs of sequence q are pairwise disjoint, cover
\* [0, ny) exactly, and only the job of the highest index is longer than a
\* block, ending at the last row
IsPartition(q) ==
    /\ \A a, b \in 1..Len(q) : a # b => Rows(q[a]) \cap Rows(q[b]) = {}
    /\ UNION {Rows(q[a]) : a \in 1..Len(q)} = 0..(ny - 1)
    /\ \A a \in 1..Len(q) :
           IF JobId(q[a]) = Len(q) - 1
           THEN q[a].rowEnd = ny
           ELSE q[a].rowEnd = q[a].rowStart + nRowsPerJob

\* C2: the row ranges of the generated jobs are pairwise disjoint, their
\* union is [0, height), and the remainder rows go to the last job.  Stated
\* of the pool's job queue once it is filled and of the async program's
\* results once all are collected, when there is at least one job.
C2_RowRangesPartition ==
    /\ (prog = "pool" /\ pc[0] = "spawn" /\ nJobs >= 1) => IsPartition(jobQueue)
    /\ (prog = "async" /\ pc[0] = "merge" /\ nJobs >= 1) => IsPartition(imageBlocks)

\* C3: in the pool program every job pushed on the queue is dequeued at most
\* once, computed at most once and appended at most once, the finished-jobs
\* collection never holds more than nJobs entries, and when main has joined
\* the workers each job was dequeued, computed and appended exactly once.
C3_EachJobOnce ==
    prog = "pool" =>
        /\ Len(imageBlocks) <= nJobs
        /\ \A n \in 0..(nJobs - 1) :
               /\ deqCount[n] <= 1
               /\ compCount[n] <= deqCount[n]
               /\ Appended(n) <= compCount[n]
               /\ pc[0] \in {"merge", "handoff"} =>
                      (deqCount[n] = 1 /\ compCount[n] = 1 /\ Appended(n) = 1)

\* a run of the pool with two threads in which the jobs finished out of
\* queue order
C3_Witness ==
    /\ prog = "pool"
    /\ nThreads >= 2
    /\ nJobs >= 2
    /\ pc[0] = "merge"
    /\ \A n \in 0..(nJobs - 1) : deqCount[n] = 1 /\ Appended(n) = 1
    /\ \E k \in 1..(Len(imageBlocks) - 1) :
           imageBlocks[k].rowStart > imageBlocks[k + 1].rowStart

\* positions of a thread that is computing, or about to append or appending
Running == {"start", "loop", "inPop", "compute", "append", "inAppend",
            "notify", "inNotify", "deferred"}

\* C4: no write to the image buffer happens before the number of collected
\* results equals the number of jobs, and while main merges (the only
\* thread that writes the buffer) no task or worker is running or appending.
C4_MergeAfterBarrier ==
    (\/ pc[0] \in {"merge", "handoff"}
     \/ mergeIdx > 0
     \/ oobWrites # {}
     \/ \E p \in DOMAIN writeCount : writeCount[p] > 0)
    => /\ Len(imageBlocks) = nJobs
       /\ \A t \in Workers : pc[t] \notin Running
       /\ pc[0] \in {"merge", "handoff"}

\* the async main was blocked in its wait, was woken, and is merging
C4_Witness ==
    /\ prog = "async"
    /\ nJobs >= 2
    /\ woken
    /\ pc[0] = "merge"
    /\ mergeIdx >= 1

\* C5: in the pool program, under fair scheduling, main's wait returns, the
\* workers are joined and main reaches the merge.
C5_PoolReachesMerge == (prog = "pool") => <>(pc[0] = "merge")

\* main blocked in the wait with a worker still at work, was woken by the
\* worker's notify, and went on to the merge
C5_Witness ==
    /\ prog = "pool"
    /\ nThreads >= 2
    /\ woken
    /\ pc[0] = "merge"

\* C6: in the async program, under fair scheduling, whichever launch policy
\* each task gets, every task runs and appends, main's wait returns and the
\* merge is reached.
C6_AsyncReachesMerge == (prog = "async") => <>(pc[0] = "merge")

\* pc values at which a thread is inside an access to the result collection,
\* the job queue or the future collection
Sections == {"inPop", "inAppend", "inNotify", "inPush", "inWait"}

\* C7: a thread inside a pop, an append, a push or the wait predicate holds
\* the mutex, so no two threads are inside such accesses together.
C7_AccessUnderMutex ==
    /\ \A t \in Tids : pc[t] \in Sections => mutex = t
    /\ Cardinality({t \in Tids : pc[t] \in Sections}) <= 1

\* a thread is appending while another one waits for the mutex
C7_Witness ==
    \E t, u \in Tids :
        /\ t # u
        /\ pc[t] = "inAppend"
        /\ pc[u] \in {"loop", "append", "notify", "waitLock", "push"}

\* the buffer after merging the blocks of q in order, from the zeroed buffer
RECURSIVE MergeFrom(_, _, _)
MergeFrom(st, q, k) ==
    IF k > Len(q) THEN st ELSE MergeFrom(WriteBlock(st, q[k], 1), q, k + 1)

MergeAll(q) ==
    MergeFrom([image |-> [p \in 0..(pixelCount - 1) |-> 0],
               count |-> [p \in 0..(pixelCount - 1) |-> 0],
               oob |-> {}], q, 1)

Perms(n) == {f \in [1..n -> 1..n] : \A a, b \in 1..n : a # b => f[a] # f[b]}

\* C8: the merge is order-independent: whatever order the completed jobs
\* have in the result collection, the merged buffer is the same.
C8_MergeOrderIndependent ==
    pc[0] = "handoff" =>
        \A f \in Perms(Len(imageBlocks)) :
            MergeAll([k \in 1..Len(imageBlocks) |-> imageBlocks[f[k]]]).image = image

\* pixel indices the job of index n records when the platform reports T workers
IndicesOf(n, T) ==
    LET j == BlockJobOf(n, T) IN Range(PixelLoop(j.rowStart, j.rowEnd, j.colSize))

\* C9: placement does not depend on the worker count: a finished render
\* recorded the row ranges and wrote the indices, as often, as a render with
\* one worker does.
C9_PlacementIgnoresWorkers ==
    pc[0] = "handoff" =>
        /\ \A k \in 1..Len(imageBlocks) :
               Rows(imageBlocks[k]) = Rows(BlockJobOf(JobId(imageBlocks[k]), 1))
        /\ \A p \in 0..(pixelCount - 1) :
               writeCount[p] =
                   Cardinality({n \in 0..(nJobs - 1) : p \in IndicesOf(n, 1)})
        /\ oobWrites = {}

\* C10: color is never invoked with a depth above 50, a primary ray causes at
\* most 51 invocations, a path that hits at every depth from 0 to 50 returns
\* zero, and the depth-0 invocation returns.
C10_ColorBounded ==
    /\ [](/\ cDepth <= DepthCap
          /\ cCalls <= DepthCap + 1
          /\ (cPc = "done" /\ cAllHit /\ cDepth = DepthCap) => cResult = 0)
    /\ <>(cPc = "done")

\* a path that hit and scattered with non-black attenuation at every depth
\* below 50 and hit at depth 50 has returned black
C10_Witness ==
    /\ cPc = "done"
    /\ cAllHit
    /\ cDepth = DepthCap
    /\ cCalls = DepthCap + 1
    /\ cThroughput = 1
    /\ cResult = 0

\* C11 as stated: an invocation of color with depth >= 50 returns black
\* whether the ray hits or misses.
C11_BlackAtCap == (cPc = "done" /\ cDepth >= DepthCap) => cResult = 0

\* C11 as amended: an invocation of color with depth >= 50 returns black when
\* the ray hits geometry, and the background when it misses.
C11_BlackAtCapOnHit ==
    (cPc = "done" /\ cDepth >= DepthCap) =>
        IF cAllHit THEN cResult = 0 ELSE cResult = cThroughput * Background

\* a ray scattered with non-black attenuation down to depth 50 missed there
\* and the primary ray got a non-black value
C11_Witness ==
    /\ cPc = "done"
    /\ cDepth = DepthCap
    /\ ~cAllHit
    /\ cResult # 0

\* C12: when the output file cannot be opened, main returns a value that
\* differs from the one it returns after a successful write, and no pixel
\* data is written.
C12_OpenFailureReported ==
    (wPc = "exited" /\ fileState = "failed") =>
        (exitCode # SuccessCode /\ fileOut = <<>>)

\* C14: a successful write emits, after the three header lines, exactly
\* width*height pixel lines, the k-th from buffer entry k, with the channels
\* in the order e[2], e[1], e[0]; in all three programs.
C14_PixelLinesReversed ==
    (wPc \in {"close", "exited"} /\ fileState \in {"open", "saved"}) =>
        /\ Len(fileOut) = 3 + nx * ny
        /\ fileOut[1] = <<"P3">> /\ fileOut[2] = <<nx, ny>> /\ fileOut[3] = <<255>>
        /\ \A k \in 0..(nx * ny - 1) :
               LET v == Vec3(image[k])
               IN  fileOut[4 + k] = <<(25599 * v[3]) \div 100000,
                                      (25599 * v[2]) \div 100000,
                                      (25599 * v[1]) \div 100000>>

\* the sequential program saved an image of at least two pixels that are not
\* all of one shade
C14_Witness ==
    /\ prog = "seq"
    /\ wPc = "exited"
    /\ fileState = "saved"
    /\ exitCode = 0
    /\ \E p, q \in DOMAIN image : image[p] = 1 /\ image[q] = 2

JobThrew == \E t \in Tids : pc[t] \in {"threw", "terminated"}

RenderTerminated == \A t \in Tids : pc[t] = "terminated"

\* C13: once a job has thrown, the whole render is terminated: main does not
\* go on to the merge without the job's pixels and does not stay blocked at
\* the completion barrier for ever.
C13_ThrowTerminatesRender ==
    /\ [](JobThrew => pc[0] \notin {"merge", "handoff"})
    /\ [](JobThrew => <>RenderTerminated)

\* every BlockJob the program holds: queued, in a thread's hands, appended
AllJobs ==
    Range(jobQueue) \cup Range(imageBlocks) \cup {job[t] : t \in Tids}

\* C15: an appended job has indices and colors of the same length
\* (rowEnd - rowStart) * width, and its k-th index (from 0) is
\* (rowStart + k div width) * width + (k mod width).
C15_BlockRowMajor ==
    \A n \in DOMAIN imageBlocks :
        LET b == imageBlocks[n]
            w == b.colSize
        IN  /\ w = nx
            /\ Len(b.indices) = (b.rowEnd - b.rowStart) * w
            /\ Len(b.colors) = Len(b.indices)
            /\ \A k \in 0..(Len(b.indices) - 1) :
                   b.indices[k + 1] = (b.rowStart + k \div w) * w + (k % w)

\* a block of at least two rows of at least two pixels has been appended
C15_Witness ==
    \E n \in DOMAIN imageBlocks :
        /\ imageBlocks[n].rowEnd - imageBlocks[n].rowStart >= 2
        /\ imageBlocks[n].colSize >= 2
        /\ Len(imageBlocks[n].indices) >= 4

Computing == {"compute", "start"}

\* C16: the mutex is held only inside the pop / push / append / notify /
\* wait sections; a thread that is computing pixels does not hold it, and
\* its pixel loop can run whoever holds the mutex.
C16_NoLockWhileComputing ==
    /\ \A t \in Tids : mutex = t => pc[t] \in Sections
    /\ \A t \in Tids : pc[t] \in Computing => mutex # t
    /\ \A t \in Tids :
           (pc[t] = "compute" => ENABLED PoolCompute(t))
           /\ ((prog = "async" /\ pc[t] = "start") => ENABLED AsyncCompute(t))

\* one thread computes while another is inside a section with the mutex
C16_Witness ==
    \E t, u \in Tids :
        /\ t # u
        /\ pc[t] \in Computing
        /\ mutex = u
        /\ pc[u] \in Sections

\* C17: no job's rowEnd exceeds the height, the extended job's included, and
\* the merge writes no index outside [0, width*height).
C17_RowsWithinImage ==
    /\ oobWrites = {}
    /\ \A b \in AllJobs : b.rowEnd <= ny
    /\ \A b \in Range(imageBlocks) :
           \A k \in DOMAIN b.indices : b.indices[k] \in 0..(pixelCount - 1)

\* the merge is over and the job of index nThreads - 1 was extended by
\* leftOver > 0 rows
C17_Witness ==
    /\ pc[0] = "handoff"
    /\ leftOver > 0
    /\ writeCount # [p \in DOMAIN writeCount |-> 0]
    /\ \E b \in Range(imageBlocks) :
           /\ b.rowStart = (nThreads - 1) * nRowsPerJob
           /\ b.rowEnd = b.rowStart + nRowsPerJob + leftOver

\* positions of a pool thread that has left the loop of ThreadJobLoop
LeftLoop(t) ==
    IF t = 0
    THEN pc[0] \in {"notify", "inNotify", "waitLock", "inWait", "blocked",
                    "join", "merge", "handoff"}
    ELSE pc[t] \in {"notify", "inNotify", "done"}

AllLeft == LeftLoop(0) /\ \A t \in Workers : pc[t] = "idle" \/ LeftLoop(t)

\* C18: in the worker pool every queued job passes the validity test, a
\* thread that has left its loop left it with the queue empty, and once all
\* threads have left every job has been executed.
C18_LeaveOnlyOnEmptyQueue ==
    prog = "pool" =>
        /\ \A b \in Range(jobQueue) : JobValid(b)
        /\ \A t \in Tids : LeftLoop(t) => jobQueue = <<>>
        /\ AllLeft => \A n \in 0..(nJobs - 1) : compCount[n] >= 1

\* main and a worker have both left their loops after at least two jobs
C18_Witness ==
    /\ prog = "pool"
    /\ nJobs >= 2
    /\ AllLeft
    /\ pc[1] = "done"
    /\ Len(imageBlocks) = nJobs

\* C19: for every worker count, 0 included, the set-up takes no remainder by
\* zero (the process is not ended by it), and a render that reaches the
\* hand-off has executed all its jobs.
C19_SetupWellDefined ==
    /\ \A t \in Tids : pc[t] # "crashed"
    /\ pc[0] = "handoff" => \A n \in 0..(nJobs - 1) : compCount[n] >= 1

====
